---- MODULE Spec2Model ----
(***************************************************************************)
(* Model of scripts/fetch_strava.py: the incremental Strava sync.  One run *)
(* of the script refreshes the token, loads the stored GeoJSON, computes   *)
(* the 'after' cutoff, pulls pages until a short or empty one, builds the  *)
(* GeoDataFrame of the new activities, merges it with the stored one and   *)
(* writes the GeoJSON and the shapefile.  The remote activity list and the *)
(* HTTP statuses are the environment.                                      *)
(***************************************************************************)
EXTENDS Integers, Sequences, FiniteSets, TLC

\* ---------------------------------------------------------------- bounds
\* Page size of the activity list request.  The script uses 200
\* (fetch_strava.py line 20); the model scales it down so that full, short
\* and empty pages all occur with a handful of activities.
PER_PAGE == 2
\* Number of activities the remote account can hold.
MaxActs == 3
\* Kudos given over one behaviour, all activities together.
MaxKudos == 1
\* Runs of the script in one behaviour.
MaxRuns == 2

\* ------------------------------------------------------------- constants
\* pandas' missing value: the id of a row of a frame without an "id" column.
NaN == 0
\* pandas' missing timestamp: the date of a row without a parsable "date".
NaT == 0
\* kudos_count of the rows of a store this model did not write itself.
LegacyKudos == MaxKudos + 1
\* 24 * 3600, the safety margin and the length of a day in epoch seconds.
SecondsPerDay == 24 * 3600
\* HTTP statuses the two endpoints answer with.
Statuses == {200, 401}

\* The athlete records one activity a day: activity i starts on day i (days
\* since the epoch).
Days == 1..MaxActs

\* Decoded coordinates are (lat, lon) pairs.
P0 == <<0, 0>>
P1 == <<1, 2>>
\* What polyline.decode returns for the summary polylines the remote serves:
\* the empty string, a one-point line and a two-point line.
Polylines == {<< >>, <<P0>>, <<P0, P1>>}
\* The "map" field of an activity: << >> when the key is missing, <<polyline>>
\* when it is there.
Maps == {<< >>} \cup {<<p>> : p \in Polylines}

\* ---------------------------------------------------------------- helpers
RECURSIVE Concat(_)
Concat(ss) == IF ss = << >> THEN << >> ELSE Head(ss) \o Concat(Tail(ss))

RECURSIVE Sum(_)
Sum(ns) == IF ns = << >> THEN 0 ELSE Head(ns) + Sum(Tail(ns))

SeqRange(s) == {s[i] : i \in DOMAIN s}

Max(S) == CHOOSE x \in S : \A y \in S : y <= x

Min2(a, b) == IF a < b THEN a ELSE b

\* ------------------------------------------------------------------ state
VARIABLES
  remote,        \* the athlete's activities at the API, newest first
  geojson,       \* docs/data/activities.geojson
  shapefile,     \* docs/data/shapefile/activities.shp and companions
  pc,            \* where the script is: idle, fetch, done, aborted, crashed
  existing,      \* the frame load_existing_geojson returned
  after_ts,      \* << >> for None, <<t>> for epoch seconds t
  page,          \* the page the loop requests next
  new_rows,      \* the accumulator of the page loop
  new_gdf,       \* build_geodataframe(new_rows)
  combined_gdf,  \* the merged frame
  token_status,  \* the status the token endpoint answered this run with; 0: not asked
  requests,      \* every activity-list request of this run, with its answer
  written,       \* the files this run wrote, in order
  console,       \* the lines this run printed
  before,        \* the two files as they were when this run started
  runs,          \* runs started so far
  quiet          \* runs completed in a row with the remote unchanged; -1: changed during this run

vars == <<remote, geojson, shapefile, pc, existing, after_ts, page, new_rows,
          new_gdf, combined_gdf, token_status, requests, written, console,
          before, runs, quiet>>

\* A frame: the columns it has (of "id" and "date", the two the script looks
\* for) and its rows.  A row carries id, kudos_count and date; a column the
\* frame lacks reads NaN / NaT.
EmptyFrame == [cols |-> {}, rows |-> << >>]

\* ------------------------------------------------------------ the remote
\* The epoch second an activity started at: some time during its day.
StartEpoch(a) == a.day * SecondsPerDay + 12 * 3600

\* GET /athlete/activities?page=..&per_page=..[&after=..]: the activities that
\* started after the cutoff, newest first, cut into pages.
Listing(after) ==
  SelectSeq(remote, LAMBDA a : after = << >> \/ StartEpoch(a) > after[1])

PageOf(list, p, per_page) ==
  SubSeq(list, (p - 1) * per_page + 1, Min2(p * per_page, Len(list)))

\* ------------------------------------------------------------ the script
\* Variant: only server errors raise.
RequestFailedOn5xxOnly(status) == status >= 500
\* Lines 38 and 49: any status but 200 raises RuntimeError.
RequestFailed(status) == status # 200

\* load_existing_geojson: the stored frame, or an empty one with an "id"
\* column when the file is missing or unreadable.
load_existing_geojson(file) ==
  IF file.state = "ok"
    THEN [cols |-> file.cols, rows |-> file.rows]
    ELSE [cols |-> {"id"}, rows |-> << >>]

\* The dates of a frame that pd.to_datetime(..., errors="coerce") parses.
ParsedDates(frame) ==
  IF "date" \in frame.cols
    THEN {frame.rows[i].date : i \in DOMAIN frame.rows} \ {NaT}
    ELSE {}

\* Variant: the cutoff without the one-day margin.
ComputeAfterNoMargin(frame) ==
  IF Len(frame.rows) > 0 /\ ParsedDates(frame) # {}
    THEN <<Max(ParsedDates(frame)) * SecondsPerDay>>
    ELSE << >>

\* Lines 133-146: None, or the epoch of the latest stored date minus a day.
ComputeAfter(frame) ==
  IF Len(frame.rows) > 0 /\ ParsedDates(frame) # {}
    THEN <<Max(ParsedDates(frame)) * SecondsPerDay - SecondsPerDay>>
    ELSE << >>

\* tidy_columns: the allow-listed fields plus the date derived from start_date.
tidy_columns(rows) ==
  [i \in DOMAIN rows |->
     [id |-> rows[i].id, kudos_count |-> rows[i].kudos_count,
      date |-> rows[i].day, map |-> rows[i].map]]

\* Whether the frame built from the rows has a "map" column at all.
HasMapColumn(rows) == \E i \in DOMAIN rows : rows[i].map # << >>

\* decode_summary_polyline on one row of the frame.  r.get("map", {}) is {}
\* when the frame has no "map" column, the NaN pandas filled in when the column
\* is there but this row had no "map" key (NaN has no .get: AttributeError),
\* and the row's own map otherwise.
decode_summary_polyline(r, hasMap) ==
  IF ~hasMap THEN [kind |-> "none", line |-> << >>]
  ELSE IF r.map = << >> THEN [kind |-> "error", line |-> << >>]
  ELSE LET coords == r.map[1] IN
    IF coords = << >> THEN [kind |-> "none", line |-> << >>]
    ELSE IF Len(coords) < 2 THEN [kind |-> "none", line |-> << >>]
    ELSE [kind |-> "line",
          line |-> [i \in DOMAIN coords |-> <<coords[i][2], coords[i][1]>>]]

\* shapely's is_valid for a LineString: at least two distinct points.
is_valid(line) == \E i, j \in DOMAIN line : line[i] # line[j]

\* build_geodataframe: tidy, decode every row, keep the rows with a valid
\* geometry, drop the map column.  raised: a row's decode raised.
build_geodataframe(rows) ==
  LET df == tidy_columns(rows)
      hasMap == HasMapColumn(rows)
      geom == [i \in DOMAIN df |-> decode_summary_polyline(df[i], hasMap)]
      keep == SelectSeq([i \in DOMAIN df |-> i],
                LAMBDA i : geom[i].kind = "line" /\ is_valid(geom[i].line))
  IN [raised |-> \E i \in DOMAIN df : geom[i].kind = "error",
      cols |-> IF rows = << >> THEN {} ELSE {"id", "date"},
      rows |-> [k \in DOMAIN keep |->
                 [id |-> df[keep[k]].id, kudos_count |-> df[keep[k]].kudos_count,
                  date |-> df[keep[k]].date]]]

\* pd.concat([a, b], ignore_index=True): the rows of a then those of b, over
\* the union of the columns.
concat(a, b) == [cols |-> a.cols \cup b.cols, rows |-> a.rows \o b.rows]

\* Variant: keep="first".
drop_duplicates_keep_first(frame) ==
  LET keep == SelectSeq([i \in DOMAIN frame.rows |-> i],
                LAMBDA i : \A j \in DOMAIN frame.rows :
                             j < i => frame.rows[j].id # frame.rows[i].id)
  IN [cols |-> frame.cols, rows |-> [k \in DOMAIN keep |-> frame.rows[keep[k]]]]

\* drop_duplicates(subset=["id"], keep="last").
drop_duplicates(frame) ==
  LET keep == SelectSeq([i \in DOMAIN frame.rows |-> i],
                LAMBDA i : \A j \in DOMAIN frame.rows :
                             j > i => frame.rows[j].id # frame.rows[i].id)
  IN [cols |-> frame.cols, rows |-> [k \in DOMAIN keep |-> frame.rows[keep[k]]]]

\* Variant: the new frame replaces the stored one.
MergeKeepsNewOnly(old, new) == [cols |-> new.cols, rows |-> new.rows]

\* Lines 169-179: merge with existing by unique id.
Merge(old, new) ==
  IF Len(old.rows) > 0
    THEN IF "id" \in old.cols
           THEN drop_duplicates(concat(old, new))
           ELSE [cols |-> new.cols, rows |-> new.rows]
    ELSE [cols |-> new.cols, rows |-> new.rows]

\* Variant: write whatever the combined frame holds.
ShouldWriteAlways(frame) == TRUE

\* Lines 181-202: whether the run writes the two files.
ShouldWrite(frame) == Len(frame.rows) > 0

AsFile(frame) == [state |-> "ok", cols |-> frame.cols, rows |-> frame.rows]

\* Variant: the shapefile is not rewritten.
SaveGeoJSONOnly(frame, files) ==
  IF ShouldWrite(frame)
    THEN [geojson |-> AsFile(frame), shapefile |-> files.shapefile,
          written |-> <<"geojson">>,
          console |-> <<"ok geojson">>]
    ELSE [geojson |-> files.geojson, shapefile |-> files.shapefile,
          written |-> << >>,
          console |-> <<"nothing to update">>]

\* Lines 181-202: when the combined frame has rows, write the GeoJSON and then
\* the shapefile (same rows, three columns renamed); otherwise only report.
Save(frame, files) ==
  IF ShouldWrite(frame)
    THEN [geojson |-> AsFile(frame), shapefile |-> AsFile(frame),
          written |-> <<"geojson", "shapefile">>,
          console |-> <<"ok geojson", "ok shapefile">>]
    ELSE [geojson |-> files.geojson, shapefile |-> files.shapefile,
          written |-> << >>,
          console |-> <<"nothing to update">>]

\* Variant: only an empty page ends the loop.
LoopExitsOnEmptyPageOnly(items) == items = << >>

\* Lines 155-161: what the loop does with a page.  TRUE: leave the loop.
LoopExits(items) == items = << >> \/ Len(items) < PER_PAGE

\* ------------------------------------------------------------------- Init
NoFile == [state |-> "absent", cols |-> {}, rows |-> << >>]
Unreadable == [state |-> "corrupt", cols |-> {}, rows |-> << >>]

\* A store left by something other than this version of the script: one row,
\* lacking the "id" column, the "date" column or both.
LegacyStores ==
  {[state |-> "ok", cols |-> c,
    rows |-> <<[id |-> IF "id" \in c THEN 1 ELSE NaN,
                kudos_count |-> LegacyKudos,
                date |-> IF "date" \in c THEN d ELSE NaT]>>] :
     c \in (SUBSET {"id", "date"}) \ {{"id", "date"}}, d \in Days}

Init ==
  /\ remote = << >>
  /\ geojson \in {NoFile, Unreadable} \cup LegacyStores
  /\ shapefile = IF geojson.state = "ok" THEN geojson ELSE NoFile
  /\ pc = "idle"
  /\ existing = EmptyFrame
  /\ after_ts = << >>
  /\ page = 1
  /\ new_rows = << >>
  /\ new_gdf = EmptyFrame
  /\ combined_gdf = EmptyFrame
  /\ token_status = 0
  /\ requests = << >>
  /\ written = << >>
  /\ console = << >>
  /\ before = [geojson |-> geojson, shapefile |-> shapefile]
  /\ runs = 0
  /\ quiet = 0

\* ------------------------------------------------------------ environment
Running == pc = "fetch"
MayChange == Running \/ runs < MaxRuns

\* A new activity is uploaded: it is the newest of the list.
RemoteAdd ==
  /\ MayChange
  /\ Len(remote) < MaxActs
  /\ \E m \in Maps :
       remote' = <<[id |-> Len(remote) + 1, kudos_count |-> 0,
                    day |-> Len(remote) + 1, map |-> m]>> \o remote
  /\ quiet' = IF Running THEN -1 ELSE 0
  /\ UNCHANGED <<geojson, shapefile, pc, existing, after_ts, page, new_rows,
                 new_gdf, combined_gdf, token_status, requests, written,
                 console, before, runs>>

\* Somebody gives kudos to an activity.
RemoteKudos ==
  /\ MayChange
  /\ \E i \in DOMAIN remote :
       /\ Sum([k \in DOMAIN remote |-> remote[k].kudos_count]) < MaxKudos
       /\ remote' = [remote EXCEPT ![i].kudos_count = @ + 1]
  /\ quiet' = IF Running THEN -1 ELSE 0
  /\ UNCHANGED <<geojson, shapefile, pc, existing, after_ts, page, new_rows,
                 new_gdf, combined_gdf, token_status, requests, written,
                 console, before, runs>>

\* ---------------------------------------------------------------- the run
\* The script starts: refresh_access_token, then lines 131-152 up to the
\* first page request.  A status other than 200 raises and ends the process.
RefreshToken ==
  /\ pc \in {"idle", "done", "aborted", "crashed"}
  /\ runs < MaxRuns
  /\ runs' = runs + 1
  /\ before' = [geojson |-> geojson, shapefile |-> shapefile]
  /\ quiet' = IF quiet = -1 THEN 0 ELSE quiet
  /\ new_rows' = << >>
  /\ new_gdf' = EmptyFrame
  /\ combined_gdf' = EmptyFrame
  /\ requests' = << >>
  /\ written' = << >>
  /\ page' = 1
  /\ \E status \in Statuses :
       /\ token_status' = status
       /\ IF RequestFailed(status)
            THEN /\ pc' = "aborted"
                 /\ existing' = EmptyFrame
                 /\ after_ts' = << >>
                 /\ console' = << >>
            ELSE /\ pc' = "fetch"
                 /\ existing' = load_existing_geojson(geojson)
                 /\ after_ts' = ComputeAfter(existing')
                 /\ console' = <<"after">>
  /\ UNCHANGED <<remote, geojson, shapefile>>

\* Lines 164-202, once the loop is left with the accumulator rows.
Finish(rows) ==
  LET built == build_geodataframe(rows) IN
  IF built.raised
    THEN /\ pc' = "crashed"
         /\ new_gdf' = EmptyFrame
         /\ combined_gdf' = EmptyFrame
         /\ written' = << >>
         /\ console' = console \o <<"fetched">>
         /\ quiet' = quiet
         /\ UNCHANGED <<geojson, shapefile>>
    ELSE LET gdf == [cols |-> built.cols, rows |-> built.rows]
             combined == Merge(existing, gdf)
             saved == Save(combined, [geojson |-> geojson, shapefile |-> shapefile])
         IN /\ pc' = "done"
            /\ new_gdf' = gdf
            /\ combined_gdf' = combined
            /\ geojson' = saved.geojson
            /\ shapefile' = saved.shapefile
            /\ written' = saved.written
            /\ console' = console \o <<"fetched">> \o saved.console
            /\ quiet' = IF quiet = -1 THEN -1 ELSE Min2(quiet + 1, 2)

\* One pass of the while loop (lines 153-162): strava_get_activities for the
\* current page, and, when the loop is left, the rest of the script.
GetActivities ==
  /\ pc = "fetch"
  /\ \E status \in Statuses :
       LET items == IF status = 200
                      THEN PageOf(Listing(after_ts), page, PER_PAGE) ELSE << >>
           req == [page |-> page, per_page |-> PER_PAGE, after |-> after_ts,
                   status |-> status, items |-> items]
       IN /\ requests' = Append(requests, req)
          /\ IF RequestFailed(status)
               THEN /\ pc' = "aborted"
                    /\ UNCHANGED <<geojson, shapefile, new_rows, new_gdf,
                                   combined_gdf, written, console, page, quiet>>
               ELSE /\ new_rows' = new_rows \o items
                    /\ IF LoopExits(items)
                         THEN /\ Finish(new_rows')
                              /\ page' = page
                         ELSE /\ pc' = "fetch"
                              /\ page' = page + 1
                              /\ UNCHANGED <<geojson, shapefile, new_gdf,
                                             combined_gdf, written, console, quiet>>
  /\ UNCHANGED <<remote, existing, after_ts, token_status, before, runs>>

Next == RemoteAdd \/ RemoteKudos \/ RefreshToken \/ GetActivities

Spec == Init /\ [][Next]_vars

\* ============================================================= properties
Rows(file) == IF file.state = "ok" THEN file.rows ELSE << >>

\* The ids a sequence of rows holds (NaN is no id).
IdsOf(rows) == {rows[i].id : i \in DOMAIN rows} \ {NaN}

NoDuplicateIds(rows) ==
  \A i, j \in DOMAIN rows : i # j => rows[i].id # rows[j].id

RowsWithId(rows, id) == {i \in DOMAIN rows : rows[i].id = id}

\* The record the script stores for a fetched activity.
RecordOf(a) == [id |-> a.id, kudos_count |-> a.kudos_count, date |-> a.day]

Completed == pc = "done"
Wrote == Completed /\ written # << >>

\* ---- C1: the dataset a run writes to the output files holds no two
\* records with the same id, whatever the store and the fetched pages were.
C1_NoDuplicateIdsWritten ==
  Wrote => NoDuplicateIds(geojson.rows) /\ NoDuplicateIds(shapefile.rows)

\* ---- C2, as stated: for every id both in the existing dataset and among
\* the newly fetched records, the written dataset holds exactly one record
\* for that id, with the field values of the newly fetched record.
C2_FetchedRecordWins ==
  Wrote =>
    \A i \in DOMAIN new_rows :
      new_rows[i].id \in IdsOf(existing.rows) =>
        /\ Cardinality(RowsWithId(geojson.rows, new_rows[i].id)) = 1
        /\ \A k \in RowsWithId(geojson.rows, new_rows[i].id) :
             geojson.rows[k] = RecordOf(new_rows[i])

\* The last fetched activity with the id among those that decode to a valid
\* line of two or more points.
HasLine(a) == a.map # << >> /\ Len(a.map[1]) >= 2
LastWithLine(id) ==
  new_rows[Max({i \in DOMAIN new_rows : new_rows[i].id = id /\ HasLine(new_rows[i])})]

\* ---- C2, amended: for every id both in the existing dataset and among the
\* newly fetched records that carry a valid line geometry, the written
\* dataset holds exactly one record for that id, with the field values of
\* the last such fetched record.
C2_FetchedRecordWithGeometryWins ==
  Wrote =>
    \A id \in IdsOf(existing.rows) :
      (\E i \in DOMAIN new_rows : new_rows[i].id = id /\ HasLine(new_rows[i])) =>
        /\ Cardinality(RowsWithId(geojson.rows, id)) = 1
        /\ \A k \in RowsWithId(geojson.rows, id) :
             geojson.rows[k] = RecordOf(LastWithLine(id))

\* A run wrote a record whose stored values differed from the fetched ones.
C2_Witness ==
  /\ Wrote
  /\ \E i \in DOMAIN existing.rows, j \in DOMAIN new_rows :
       /\ existing.rows[i].id = new_rows[j].id
       /\ HasLine(new_rows[j])
       /\ existing.rows[i].kudos_count # new_rows[j].kudos_count

\* ---- C3: an id stored before a run is still stored after it, in both
\* files, whatever the fetch returned and whatever columns the store has.
C3_StoredIdsNeverShrink ==
  /\ IdsOf(Rows(before.geojson)) \subseteq IdsOf(Rows(geojson))
  /\ IdsOf(Rows(before.shapefile)) \subseteq IdsOf(Rows(shapefile))

\* A run rewrote the store although its fetch omitted a stored id.
C3_Witness ==
  /\ Wrote
  /\ \E id \in IdsOf(Rows(before.geojson)) :
       \A i \in DOMAIN new_rows : new_rows[i].id # id

\* The dates stored in the existing dataset.
StoredDates == {existing.rows[i].date : i \in DOMAIN existing.rows} \ {NaT}

\* ---- C4, as stated: every page request carries after = (max stored date
\* as epoch seconds) - 86400 whenever the existing dataset has a record, and
\* no after filter when it has none.
C4_AfterFromAnyStore ==
  \A k \in DOMAIN requests :
    IF Len(existing.rows) > 0
      THEN /\ StoredDates # {}
           /\ requests[k].after = <<Max(StoredDates) * 86400 - 86400>>
      ELSE requests[k].after = << >>

\* ---- C4, amended: every page request of a run carries the same bound:
\* (max stored date as epoch seconds) - 86400 whenever the existing dataset
\* has a record with a parsable date, and no after filter otherwise (no
\* stored data, no date column, or no parsable date).
C4_AfterFromStoredDates ==
  \A k \in DOMAIN requests :
    /\ requests[k].after = after_ts
    /\ IF StoredDates # {}
         THEN requests[k].after = <<Max(StoredDates) * 86400 - 86400>>
         ELSE requests[k].after = << >>

\* A second page was requested with a cutoff.
C4_Witness ==
  \E k \in DOMAIN requests : k >= 2 /\ requests[k].after # << >>

\* The items of every page this run was answered with, in request order.
PagesReturned == Concat([k \in DOMAIN requests |-> requests[k].items])

LoopLeft == pc \in {"done", "crashed"}

\* ---- C5: the loop requests pages 1, 2, 3, ... with the fixed page size;
\* every page before the last is full; the loop is left exactly at the first
\* empty or short page, with no request after it; and the accumulator is the
\* concatenation, in request order, of the pages returned.
C5_PageLoop ==
  /\ \A k \in DOMAIN requests :
       /\ requests[k].page = k
       /\ requests[k].per_page = PER_PAGE
       /\ k < Len(requests) =>
            requests[k].status = 200 /\ Len(requests[k].items) = PER_PAGE
  /\ pc = "fetch" =>
       /\ page = Len(requests) + 1
       /\ \A k \in DOMAIN requests : Len(requests[k].items) = PER_PAGE
       /\ new_rows = PagesReturned
  /\ LoopLeft =>
       /\ requests # << >>
       /\ requests[Len(requests)].status = 200
       /\ Len(requests[Len(requests)].items) < PER_PAGE
       /\ new_rows = PagesReturned

\* The loop was left after a full page followed by a short, non-empty one.
C5_Witness ==
  /\ LoopLeft
  /\ Len(requests) >= 2
  /\ requests[Len(requests)].items # << >>

\* A fetched activity without a usable polyline: no map, an empty polyline or
\* fewer than two points.
NoLine(a) == a.map = << >> \/ Len(a.map[1]) < 2

\* ---- C6: a fetched record without a usable polyline is not in the dataset
\* the run builds and exports, and the run does not abort because of it.
C6_NoLineRecordsDroppedQuietly ==
  /\ pc # "crashed"
  /\ Completed =>
       \A i \in DOMAIN new_rows :
         NoLine(new_rows[i]) =>
           \A k \in DOMAIN new_gdf.rows : new_gdf.rows[k] # RecordOf(new_rows[i])

\* ---- C7: a token or page request answered with another status than 200
\* ends the run there: it is the last request, nothing fetched before it is
\* merged or written, and both files are as they were before the run.
C7_FailedRequestAborts ==
  /\ token_status \notin {0, 200} => pc = "aborted" /\ requests = << >>
  /\ \A k \in DOMAIN requests :
       requests[k].status # 200 => pc = "aborted" /\ k = Len(requests)
  /\ pc = "aborted" =>
       /\ requests = << >> => token_status # 200
       /\ requests # << >> => requests[Len(requests)].status # 200
       /\ geojson = before.geojson
       /\ shapefile = before.shapefile
       /\ written = << >>
       /\ new_gdf.rows = << >>
       /\ combined_gdf.rows = << >>

\* A page request failed after an earlier page had been fetched.
C7_Witness ==
  /\ pc = "aborted"
  /\ Len(requests) >= 2
  /\ new_rows # << >>

\* ---- C8: when the combined dataset is empty the run writes neither file,
\* leaves both as they were, and its last word is the informational message.
C8_EmptyCombinedWritesNothing ==
  (Completed /\ combined_gdf.rows = << >>) =>
    /\ written = << >>
    /\ geojson = before.geojson
    /\ shapefile = before.shapefile
    /\ console = <<"after", "fetched", "nothing to update">>

\* Everything fetched was filtered out, with a store already on disk.
C8_Witness ==
  /\ Completed
  /\ combined_gdf.rows = << >>
  /\ new_rows # << >>
  /\ before.geojson.state = "ok"

Content(file) == SeqRange(Rows(file))

\* ---- C10: a run that completes after another completed run, with the
\* remote list unchanged since the first of the two started, leaves the
\* stored dataset with the same ids and the same field values per id.
C10_SecondRunChangesNothing ==
  (Completed /\ quiet = 2) =>
    /\ Content(geojson) = Content(before.geojson)
    /\ Content(shapefile) = Content(before.shapefile)

====
